---- MODULE Spec2Model ----
(***************************************************************************)
(* Functional calibration of body-worn orientation sensors                 *)
(* (source/align.py): find_rotation_axis, create_anatomical_frame,         *)
(* perform_calibration and the caller that holds the calibration set.      *)
(*                                                                         *)
(* Numbers.  The code works on floats; the model works on exact integers:  *)
(*  - a unit quaternion is written as the primitive integer 4-vector on    *)
(*    its ray (90 degrees about x is <<1,1,0,0>> in w,x,y,z order), which  *)
(*    is what normalisation produces up to the positive scale;             *)
(*  - a unit 3-vector is written as the primitive integer vector on its    *)
(*    ray;                                                                 *)
(*  - a rotation vector is counted in quarter turns (pi/2) along a         *)
(*    coordinate axis.                                                     *)
(* The streams the model draws are those on which every intermediate value *)
(* of the code is of this form (Representable).                            *)
(***************************************************************************)
EXTENDS Integers, Sequences, FiniteSets, TLC

\* Longest stream the model draws (samples per stream).
MaxLen == 4

\* Largest coordinate of the axes handed to create_anatomical_frame alone.
MaxCoord == 2

\* In how many of its four trials a drawn session departs from a good one.
MaxOdd == 1

\* How many lines the telemetry reader is sent, any line at each step.
MaxLines == 5

\* How many lines beyond the plot window a long run of the device lasts.
MaxFeed == 6

\* How many frames a loaded recording holds at most.
MaxFrames == 3

\* How many frames the playback loop is followed through.
MaxPlayed == 8

\* Sampling frequency of the example run, Hz.
FS == 100

\* An absent value, and a present one.
None == << >>

Some(x) == << x >>

----------------------------------------------------------------------------
(* Integer helpers *)

Abs(a) == IF a < 0 THEN -a ELSE a

RECURSIVE Gcd(_, _)
Gcd(a, b) == IF b = 0 THEN Abs(a) ELSE Gcd(b, a % Abs(b))

RECURSIVE SumSeq(_)
SumSeq(s) == IF s = <<>> THEN 0 ELSE Head(s) + SumSeq(Tail(s))

\* The elements of a set of integers in increasing order.
RECURSIVE SortedSeq(_)
SortedSeq(S) ==
    IF S = {} THEN <<>>
    ELSE LET m == CHOOSE x \in S : \A y \in S : x <= y
         IN  <<m>> \o SortedSeq(S \ {m})

\* A sequence given by a function on 1..n, with its elements evaluated once.
Tup(s) == s \o << >>

Dot(u, v) == SumSeq([i \in 1..Len(u) |-> u[i] * v[i]])

Scale(k, v) == Tup([i \in 1..Len(v) |-> k * v[i]])

Neg(v) == Scale(-1, v)

\* v scaled to the primitive vector of its ray; the zero vector is left as is.
Primitive(v) ==
    LET g == Gcd(Gcd(Gcd(v[1], v[2]), v[3]), IF Len(v) = 4 THEN v[4] ELSE 0)
    IN  IF g = 0 THEN v ELSE Tup([i \in 1..Len(v) |-> v[i] \div g])

Cross(u, v) ==
    << u[2] * v[3] - u[3] * v[2],
       u[3] * v[1] - u[1] * v[3],
       u[1] * v[2] - u[2] * v[1] >>

Zero3 == <<0, 0, 0>>

\* Determinant of the minor of A on the given rows and columns (Laplace).
RECURSIVE Det(_, _, _)
Det(A, rows, cols) ==
    IF rows = <<>> THEN 1
    ELSE SumSeq([j \in 1..Len(cols) |->
            (IF j % 2 = 1 THEN 1 ELSE -1) * A[rows[1]][cols[j]]
            * Det(A, Tail(rows),
                  SubSeq(cols, 1, j - 1) \o SubSeq(cols, j + 1, Len(cols)))])

\* A symmetric n x n matrix is positive semidefinite: every principal minor >= 0.
IsPSD(A, n) ==
    \A I \in (SUBSET (1..n)) \ {{}} : Det(A, SortedSeq(I), SortedSeq(I)) >= 0

\* lam * Id - den * A, for the test "lam / den is the largest eigenvalue of A".
Shifted(A, n, lam, den) ==
    Tup([i \in 1..n |-> Tup([j \in 1..n |-> (IF i = j THEN lam ELSE 0) - den * A[i][j]])])

MatVec(A, v) == Tup([i \in 1..Len(v) |-> Dot(A[i], v)])

\* v is an eigenvector of the symmetric matrix A for its largest eigenvalue.
IsTopEigvec(A, v) ==
    LET n  == Len(v)
        Av == MatVec(A, v)
        vv == Dot(v, v)
        r  == Dot(v, Av)
    IN  /\ Scale(vv, Av) = Scale(r, v)
        /\ IsPSD(Shifted(A, n, r, vv), n)

----------------------------------------------------------------------------
(* Quaternion layout, align.py:5-11 *)

\* [w,x,y,z] -> scipy's [x,y,z,w]
to_scipy_quat(quat) == << quat[2], quat[3], quat[4], quat[1] >>

\* to_scipy_quat on an (N, 4) array: every row.
to_scipy_quats(quats) == Tup([i \in 1..Len(quats) |-> to_scipy_quat(quats[i])])

\* scipy's [x,y,z,w] -> [w,x,y,z]
to_wxyz_quat(quat) == << quat[4], quat[1], quat[2], quat[3] >>

----------------------------------------------------------------------------
(* scipy.spatial.transform.Rotation, as align.py uses it.  A rotation is    *)
(* its stored quaternion in [x,y,z,w] order; a Rotation object holding N    *)
(* rotations is a sequence of N of them.                                    *)

\* Rotation.from_quat: normalises every quaternion.
from_quat(quats) == Tup([i \in 1..Len(quats) |-> Primitive(quats[i])])

\* Hamilton product p (x) q of two [x,y,z,w] quaternions, not normalised.
HProd(p, q) ==
    << p[4] * q[1] + p[1] * q[4] + p[2] * q[3] - p[3] * q[2],
       p[4] * q[2] - p[1] * q[3] + p[2] * q[4] + p[3] * q[1],
       p[4] * q[3] + p[1] * q[2] - p[2] * q[1] + p[3] * q[4],
       p[4] * q[4] - p[1] * q[1] - p[2] * q[2] - p[3] * q[3] >>

\* p * q of two single rotations (unit quaternions: the product's ray).
Compose(p, q) == Primitive(HProd(p, q))

\* Rotation.inv of one rotation: the conjugate.
Conj(q) == << -q[1], -q[2], -q[3], q[4] >>

inv(rots) == Tup([i \in 1..Len(rots) |-> Conj(rots[i])])

\* Rotation.__mul__ accepts equal counts, or a single rotation on either side.
CanMul(a, b) == Len(a) = Len(b) \/ Len(a) = 1 \/ Len(b) = 1

\* Rotation.__mul__: elementwise, a single rotation broadcast over the other.
Mul(a, b) ==
    LET n == IF Len(a) >= Len(b) THEN Len(a) ELSE Len(b)
    IN  Tup([i \in 1..n |-> Compose(IF Len(a) = 1 THEN a[1] ELSE a[i],
                                    IF Len(b) = 1 THEN b[1] ELSE b[i])])

\* rots[:-1] and rots[1:]
AllButLast(rots) == SubSeq(rots, 1, Len(rots) - 1)

AllButFirst(rots) == SubSeq(rots, 2, Len(rots))

\* Rotation.apply of one rotation to a 3-vector: q (x) (v,0) (x) conj(q) / |q|^2.
Apply(q, v) ==
    LET r == HProd(HProd(q, <<v[1], v[2], v[3], 0>>), Conj(q))
        n == Dot(q, q)
    IN  << r[1] \div n, r[2] \div n, r[3] \div n >>

\* The rotation is by a multiple of a quarter turn about a coordinate axis.
IsAxisTurn(q) ==
    /\ Cardinality({i \in 1..3 : q[i] # 0}) <= 1
    /\ \A i \in 1..3 : q[i] # 0 => (q[4] = 0 \/ Abs(q[4]) = Abs(q[i]))

\* Rotation.as_rotvec of one rotation, in quarter turns: the quaternion is
\* first made canonical (w >= 0), the angle is 2*atan2(|v|, w) along v.
RotVec(q) ==
    LET c == IF q[4] < 0 THEN Neg(q) ELSE q
        v == << c[1], c[2], c[3] >>
    IN  CASE v = Zero3 -> Zero3
          [] v # Zero3 /\ c[4] = 0 -> Scale(2, Primitive(v))
          [] v # Zero3 /\ c[4] > 0 /\ IsAxisTurn(c) -> Primitive(v)

as_rotvec(rots) == Tup([i \in 1..Len(rots) |-> RotVec(rots[i])])

\* The 48 unit quaternions of the rotations of the cube, as primitive rays.
CubeQuats ==
    { q \in [1..4 -> -1..1] : Dot(q, q) \in {1, 2, 4} }

\* Sum over the rotations of q q^T for the unit quaternion q, times 4.
OuterSum4(rots) ==
    Tup([i \in 1..4 |-> Tup([j \in 1..4 |->
        SumSeq([k \in 1..Len(rots) |->
            (4 \div Dot(rots[k], rots[k])) * rots[k][i] * rots[k][j]])])])

\* Rotation.mean: the eigenvector of sum q q^T for the largest eigenvalue
\* (either sign).  The candidates are those among the cube's rotations.
MeanCandidates(rots) ==
    LET K == OuterSum4(rots) IN { m \in CubeQuats : IsTopEigvec(K, m) }

mean(rots) == CHOOSE m \in MeanCandidates(rots) : TRUE

----------------------------------------------------------------------------
(* find_rotation_axis, align.py:13-56 *)

\* The six unit vectors along the coordinate axes.
UnitAxes ==
    { v \in [1..3 -> -1..1] : Dot(v, v) = 1 }

\* np.cov(w.T) of M observations of a 3-vector, times M*(M-1):
\* M * sum w w^T - (sum w)(sum w)^T.
cov(w) ==
    LET M == Len(w)
        s == Tup([i \in 1..3 |-> SumSeq([k \in 1..M |-> w[k][i]])])
    IN  Tup([i \in 1..3 |-> Tup([j \in 1..3 |->
            M * SumSeq([k \in 1..M |-> w[k][i] * w[k][j]]) - s[i] * s[j]])])

\* np.linalg.eigh(C)[1][:, -1]: a unit eigenvector for the largest eigenvalue.
\* Its sign, and its direction within a degenerate eigenspace, are the
\* library's choice: every candidate is a possible result.
eigh_last(C) == LET A == C IN { v \in UnitAxes : IsTopEigvec(A, v) }

\* The exceptions the function can end with: the type, the message (line 42's
\* in translation) and the side, segment and trial names the message holds.
TooFewData ==
    [type |-> "ValueError", msg |-> "too few data points to compute angular velocity",
     names |-> {}]

\* Raised by Rotation.__mul__ at line 33.
CountMismatch ==
    [type |-> "ValueError",
     msg |-> "expected equal number of rotations in both or a single rotation in either object",
     names |-> {}]

NoExc == [type |-> "", msg |-> "", names |-> {}]

Raised(e) == [ok |-> FALSE, exc |-> e, axis_p |-> None, axis_d |-> None]

Returned(ap, ad) == [ok |-> TRUE, exc |-> NoExc, axis_p |-> ap, axis_d |-> ad]

\* A variant the properties must tell apart.  The check at line 41, off by one.
TooFew_three(relative_ang_vel) == Len(relative_ang_vel) < 3

\* Fewer angular-velocity samples than the covariance needs (line 41).
TooFew(relative_ang_vel) == Len(relative_ang_vel) < 2

\* relative_rotation = dist_rot * prox_rot.inv()  (line 33)
relative_rotation(proximal_q, distal_q) ==
    Mul(from_quat(to_scipy_quats(distal_q)), inv(from_quat(to_scipy_quats(proximal_q))))

\* A variant the properties must tell apart.  The differences taken around
\* the end of the stream, as np.roll would: one more sample, from the last
\* and the first relative rotation.
relative_ang_vel_roll(rel, fs) ==
    LET delta == Mul(inv(rel), AllButFirst(rel) \o SubSeq(rel, 1, 1))
        rv    == as_rotvec(delta)
    IN  Tup([i \in 1..Len(rv) |-> Scale(fs, rv[i])])

\* delta_relative_rotation.as_rotvec() * fs  (lines 38-39)
relative_ang_vel(rel, fs) ==
    LET delta == Mul(inv(AllButLast(rel)), AllButFirst(rel))
        rv    == as_rotvec(delta)
    IN  Tup([i \in 1..Len(rv) |-> Scale(fs, rv[i])])

\* The possible outcomes of find_rotation_axis(proximal_q, distal_q, fs).
find_rotation_axis(proximal_q, distal_q, fs) ==
    IF ~CanMul(distal_q, proximal_q)
    THEN {Raised(CountMismatch)}
    ELSE LET rel == relative_rotation(proximal_q, distal_q)
             w   == relative_ang_vel(rel, fs)
         IN  IF TooFew(w)
             THEN {Raised(TooFewData)}
             ELSE { Returned(Primitive(axis_p),
                             Primitive(Apply(mean(rel), axis_p)))
                    : axis_p \in eigh_last(cov(w)) }

----------------------------------------------------------------------------
(* The streams the model draws, [w,x,y,z] samples *)

QI == <<1, 0, 0, 0>>

\* A quarter turn about x, and about z.
QX == <<1, 1, 0, 0>>

QZ == <<1, 0, 0, 1>>

\* p * q for two [w,x,y,z] quaternions.
QMul(p, q) == to_wxyz_quat(Compose(to_scipy_quat(p), to_scipy_quat(q)))

\* n samples of a sensor at rest in orientation o.
Still(o, n) == Tup([i \in 1..n |-> o])

\* n samples of a flexion about x seen by a sensor mounted with offset o:
\* 0, quarter turn, ..., quarter turn, half turn (as sim_knee_rot * offset).
Flex(o, n) ==
    Tup([i \in 1..n |->
        QMul(IF i = 1 THEN QI ELSE IF i = n /\ n >= 3 THEN QMul(QX, QX) ELSE QX, o)])

Offsets == {QI, QZ}

Pool ==
    { Still(o, n) : o \in Offsets, n \in 1..MaxLen }
    \cup { Flex(o, n) : o \in Offsets, n \in 1..MaxLen }

\* Every intermediate value of find_rotation_axis on the pair is exact in the
\* model: the steps between samples are at most quarter turns about a
\* coordinate axis, the covariance has an eigenvector along a coordinate axis
\* for its largest eigenvalue, and the mean relative rotation is one rotation
\* of the cube.
Representable(proximal_q, distal_q) ==
    CanMul(distal_q, proximal_q) =>
        LET rel   == relative_rotation(proximal_q, distal_q)
            delta == Mul(inv(AllButLast(rel)), AllButFirst(rel))
        IN  /\ \A i \in 1..Len(delta) : IsAxisTurn(delta[i]) /\ delta[i][4] # 0
            /\ Len(delta) >= 2 =>
                 /\ eigh_last(cov(relative_ang_vel(rel, 1))) # {}
                 /\ Cardinality(MeanCandidates(rel)) = 2

TrialPairs == { pd \in Pool \X Pool : Representable(pd[1], pd[2]) }

FsValues == {1, FS}

\* The streams of a sensor at rest: the static trial's.
StaticPool == { Still(o, n) : o \in Offsets, n \in 1..MaxLen }

----------------------------------------------------------------------------
(* create_anatomical_frame, align.py:59-89 *)

\* (nan, nan, nan) and the all-nan quaternion.  A normalised vector is never
\* zero, so the zero tuple is free to stand for the result of 0/0.
NaN3 == Zero3

NaN4 == <<0, 0, 0, 0>>

\* v / np.linalg.norm(v): the unit vector of v, nan for the zero vector
\* (numpy warns and goes on).
Normalize3(v) == IF v = Zero3 THEN NaN3 ELSE Primitive(v)

\* A variant the properties must tell apart.  The longitudinal axis taken as
\* the y column as it is, without the second cross product.
frame_axes_plain(primary_axis, longitudinal_axis) ==
    LET x_axis == Normalize3(primary_axis)
        z_axis == Normalize3(Cross(x_axis, longitudinal_axis))
    IN  << x_axis, Normalize3(longitudinal_axis), z_axis >>

\* A variant the properties must tell apart.  The second cross product taken
\* in the other order, x cross z.
frame_axes_swapped(primary_axis, longitudinal_axis) ==
    LET x_axis == Normalize3(primary_axis)
        z_axis == Normalize3(Cross(x_axis, longitudinal_axis))
        y_axis == Normalize3(Cross(x_axis, z_axis))
    IN  << x_axis, y_axis, z_axis >>

\* The columns x, y, z of rotation_matrix (lines 73-83).
frame_axes(primary_axis, longitudinal_axis) ==
    LET x_axis == Normalize3(primary_axis)
        z_axis == Normalize3(Cross(x_axis, longitudinal_axis))
        y_axis == Normalize3(Cross(z_axis, x_axis))
    IN  << x_axis, y_axis, z_axis >>

\* np.array([x_axis, y_axis, z_axis]).T  (line 87)
rotation_matrix(axes) ==
    << << axes[1][1], axes[2][1], axes[3][1] >>,
       << axes[1][2], axes[2][2], axes[3][2] >>,
       << axes[1][3], axes[2][3], axes[3][3] >> >>

\* Rotation.from_matrix on a matrix of finite entries: the quaternion is
\* read off the largest of the diagonal entries and the trace, then
\* normalised.  Stored in [x,y,z,w] order.
from_matrix(m) ==
    LET trace    == m[1][1] + m[2][2] + m[3][3]
        decision == << m[1][1], m[2][2], m[3][3], trace >>
        choice   == CHOOSE c \in 1..4 :
                       /\ \A d \in 1..4 : decision[d] <= decision[c]
                       /\ \A d \in 1..(c - 1) : decision[d] < decision[c]
        i == choice
        j == (i % 3) + 1
        k == (j % 3) + 1
    IN  IF choice # 4
        THEN Primitive([n \in 1..4 |->
                 IF n = i THEN 1 - trace + 2 * m[i][i]
                 ELSE IF n = j THEN m[j][i] + m[i][j]
                 ELSE IF n = k THEN m[k][i] + m[i][k]
                 ELSE m[k][j] - m[j][k]])
        ELSE Primitive(<< m[3][2] - m[2][3], m[1][3] - m[3][1],
                          m[2][1] - m[1][2], 1 + trace >>)

\* What Rotation.from_matrix does with a matrix holding nan depends on the
\* installed scipy: it either carries the nan into the quaternion, or fails
\* inside its orthogonalisation.
Builds == {"nan_passes", "nan_raises"}

NotConverged == [type |-> "LinAlgError", msg |-> "SVD did not converge", names |-> {}]

FrameRaised(e) == [ok |-> FALSE, exc |-> e, quat |-> None, axes |-> None]

FrameReturned(q, axes) == [ok |-> TRUE, exc |-> NoExc, quat |-> q, axes |-> axes]

\* create_anatomical_frame(primary_axis, longitudinal_axis) under a build.
\* The code has no check of its own: parallel axes make z_axis nan.
create_anatomical_frame(primary_axis, longitudinal_axis, build) ==
    LET axes == frame_axes(primary_axis, longitudinal_axis)
    IN  IF NaN3 \in {axes[1], axes[2], axes[3]}
        THEN IF build = "nan_raises"
             THEN FrameRaised(NotConverged)
             ELSE FrameReturned(NaN4, axes)
        ELSE FrameReturned(from_matrix(rotation_matrix(axes)), axes)

\* A variant the properties must tell apart.  The frame's quaternion stored as scipy gives it, [x,y,z,w].
frame_quat_xyzw(frame) == frame.quat

\* Rotation.as_quat() of the frame, in [w,x,y,z] order (lines 168-170).
frame_quat(frame) == to_wxyz_quat(frame.quat)

\* Axes handed to create_anatomical_frame alone: the multiples of the
\* coordinate unit vectors, so that the frame is a rotation of the cube.
FrameVecs == { Scale(k, e) : k \in 1..MaxCoord, e \in UnitAxes }

Parallel(u, v) == Cross(u, v) = Zero3

\* Longitudinal axes that are not along a coordinate axis: a static "up"
\* that leans towards the medio-lateral axis.
SkewVecs ==
    { v \in [1..3 -> -1..1] : Dot(v, v) = 2 }

\* The pairs of axes handed to create_anatomical_frame alone: those whose
\* frame has its columns along the coordinate axes.
FramePairs ==
    { uv \in FrameVecs \X (FrameVecs \cup SkewVecs) :
        LET c == Cross(Normalize3(uv[1]), uv[2])
        IN  Cardinality({ i \in 1..3 : c[i] # 0 }) <= 1 }

----------------------------------------------------------------------------
(* perform_calibration, align.py:92-172 *)

sides == << "left", "right" >>

Segments == {"thigh", "shank", "foot"}

\* The dictionary key f'{side}_{segment}'.
Key(side, segment) == << side, segment >>

AllKeys == { Key(sides[i], g) : i \in 1..Len(sides), g \in Segments }

global_up_vector == <<0, 1, 0>>

\* The segment's longitudinal axis: the global "up" in the sensor's frame at
\* the mean static orientation (lines 121-129).
long_axis(static_q) ==
    Apply(Conj(mean(from_quat(to_scipy_quats(static_q)))), global_up_vector)

\* long_axis of every static stream the model draws, computed once.
LongAxisTable == [q \in StaticPool |-> long_axis(q)]

\* np.tile([1,0,0,0], (len(hip_thigh_q), 1))  (line 143)
fixed_reference(hip_thigh_q) == Still(QI, Len(hip_thigh_q))

\* A variant the properties must tell apart.  The thigh's axis taken from the hip trial instead.
thigh_ml_axis_hip(knee, hip, ankle) == hip.axis_p

\* The shank's axis taken from the ankle trial instead.
shank_ml_axis_ankle(knee, hip, ankle) == ankle.axis_p

\* Which estimated axis calibrates which segment (lines 155, 159, 163).
thigh_ml_axis(knee, hip, ankle) == knee.axis_p

shank_ml_axis(knee, hip, ankle) == knee.axis_d

foot_ml_axis(knee, hip, ankle) == ankle.axis_d

BodyRaised(where, e) == [ok |-> FALSE, at |-> where, exc |-> e, quats |-> None]

BodyDone(qt, qs, qf) ==
    [ok |-> TRUE, at |-> "", exc |-> NoExc,
     quats |-> [g \in Segments |-> CASE g = "thigh" -> qt [] g = "shank" -> qs [] g = "foot" -> qf]]

\* One pass of the loop body for a side (lines 114-170), given what the three
\* calls of find_rotation_axis came to: the first failure propagates from
\* where it was raised, otherwise the three quaternions are stored.
loop_body(side, static_data, build, knee, hip, ankle) ==
    IF ~knee.ok THEN BodyRaised("knee", knee.exc)
    ELSE IF ~hip.ok THEN BodyRaised("hip", hip.exc)
    ELSE IF ~ankle.ok THEN BodyRaised("ankle", ankle.exc)
    ELSE
      LET thigh_cal_rot == create_anatomical_frame(thigh_ml_axis(knee, hip, ankle),
                               LongAxisTable[static_data[Key(side, "thigh")]], build)
          shank_cal_rot == create_anatomical_frame(shank_ml_axis(knee, hip, ankle),
                               LongAxisTable[static_data[Key(side, "shank")]], build)
          foot_cal_rot  == create_anatomical_frame(foot_ml_axis(knee, hip, ankle),
                               LongAxisTable[static_data[Key(side, "foot")]], build)
      IN  IF ~thigh_cal_rot.ok THEN BodyRaised("thigh", thigh_cal_rot.exc)
          ELSE IF ~shank_cal_rot.ok THEN BodyRaised("shank", shank_cal_rot.exc)
          ELSE IF ~foot_cal_rot.ok THEN BodyRaised("foot", foot_cal_rot.exc)
          ELSE BodyDone(frame_quat(thigh_cal_rot), frame_quat(shank_cal_rot),
                        frame_quat(foot_cal_rot))

\* calibration_quats after the three stores of a side (lines 168-170).
stored(calibration_quats, side, quats) ==
    [k \in DOMAIN calibration_quats \cup { Key(side, g) : g \in Segments } |->
        IF k[1] = side THEN quats[k[2]] ELSE calibration_quats[k]]

\* A variant the properties must tell apart.  The caller looking at the dictionary while it is being filled.
caller_sees_local(held, calibration_quats) == Some(calibration_quats)

\* calibration_quats is local to the call (line 107): what the caller holds
\* is not touched while the loop runs.
caller_during_call(held, calibration_quats) == held

\* A variant the properties must tell apart.  The knee streams always read
\* under the left side's keys.
knee_call_left(a, side) ==
    << a.knee_data[Key("left", "thigh")], a.knee_data[Key("left", "shank")], a.fs >>

\* The arguments of the three calls of find_rotation_axis for a side
\* (lines 135-137, 141-143, 146-148).
knee_call(a, side) ==
    << a.knee_data[Key(side, "thigh")], a.knee_data[Key(side, "shank")], a.fs >>

hip_call(hip_data, side, fs) ==
    << fixed_reference(hip_data[Key(side, "thigh")]), hip_data[Key(side, "thigh")], fs >>

ankle_call(a, side) ==
    << a.ankle_data[Key(side, "shank")], a.ankle_data[Key(side, "foot")], a.fs >>

----------------------------------------------------------------------------
(* The trial data the model draws for perform_calibration *)

\* A dictionary with the same streams on both sides, or given per side.
PerSide(left, right) ==
    [k \in { Key(sides[i], g) : i \in 1..Len(sides), g \in DOMAIN left } |->
        IF k[1] = "left" THEN left[k[2]] ELSE right[k[2]]]

\* Static stance: thigh sensor turned a quarter about z, the others aligned.
StaticGood ==
    [thigh |-> Still(QZ, MaxLen), shank |-> Still(QI, MaxLen), foot |-> Still(QI, MaxLen)]

\* Static stance whose thigh "up" is parallel to the knee axis seen by the thigh.
StaticParallel ==
    [thigh |-> Still(QI, MaxLen), shank |-> Still(QI, MaxLen), foot |-> Still(QI, MaxLen)]

\* Flexion of the distal segment, the proximal one at rest.
HingeGood == [prox |-> Still(QI, MaxLen), dist |-> Flex(QZ, MaxLen)]

\* Two samples only.
HingeShort == [prox |-> Still(QI, 2), dist |-> Flex(QZ, 2)]

\* No relative motion at all.
HingeStill == [prox |-> Still(QI, MaxLen), dist |-> Still(QZ, MaxLen)]

KneeOf(h) == [thigh |-> h.prox, shank |-> h.dist]

AnkleOf(h) == [shank |-> h.prox, foot |-> h.dist]

StaticDicts ==
    { PerSide(StaticGood, StaticGood), PerSide(StaticGood, StaticParallel) }

KneeDicts ==
    { PerSide(KneeOf(HingeGood), KneeOf(HingeGood)),
      PerSide(KneeOf(HingeShort), KneeOf(HingeGood)),
      PerSide(KneeOf(HingeGood), KneeOf(HingeShort)),
      PerSide(KneeOf(HingeStill), KneeOf(HingeGood)) }

HipDicts ==
    { PerSide([thigh |-> Flex(QI, MaxLen)], [thigh |-> Flex(QI, MaxLen)]),
      PerSide([thigh |-> Flex(QZ, MaxLen)], [thigh |-> Flex(QI, MaxLen)]),
      PerSide([thigh |-> Flex(QI, 2)], [thigh |-> Flex(QI, MaxLen)]) }

AnkleDicts ==
    { PerSide(AnkleOf(HingeGood), AnkleOf(HingeGood)),
      PerSide(AnkleOf(HingeGood), AnkleOf(HingeShort)) }

\* The trials as recorded in a good session, and the sessions that differ
\* from it in at most MaxOdd of the four trials.
GoodSession ==
    [static_data |-> PerSide(StaticGood, StaticGood),
     hip_data    |-> PerSide([thigh |-> Flex(QI, MaxLen)], [thigh |-> Flex(QI, MaxLen)]),
     knee_data   |-> PerSide(KneeOf(HingeGood), KneeOf(HingeGood)),
     ankle_data  |-> PerSide(AnkleOf(HingeGood), AnkleOf(HingeGood)),
     fs          |-> FS]

Trials == {"static_data", "hip_data", "knee_data", "ankle_data"}

ArgSets ==
    { a \in { [static_data |-> s, hip_data |-> h, knee_data |-> k, ankle_data |-> n,
               fs |-> FS]
             : s \in StaticDicts, h \in HipDicts, k \in KneeDicts, n \in AnkleDicts } :
        Cardinality({ t \in Trials : a[t] # GoodSession[t] }) <= MaxOdd }

\* find_rotation_axis on every call the drawn sessions lead to, computed once.
AxisCalls ==
    UNION { { knee_call(a, sides[i]), hip_call(h, sides[i], a.fs), ankle_call(a, sides[i]) }
            : a \in ArgSets, h \in HipDicts, i \in 1..Len(sides) }

AxisTable == [x \in AxisCalls |-> find_rotation_axis(x[1], x[2], x[3])]

\* The possible results of each functional trial of a side.
knee_outcomes(a, side) == AxisTable[knee_call(a, side)]

hip_outcomes(hip_data, side, fs) == AxisTable[hip_call(hip_data, side, fs)]

ankle_outcomes(a, side) == AxisTable[ankle_call(a, side)]

----------------------------------------------------------------------------
(* The serial telemetry reader, data_preprocess/data process.py.  A line is *)
(* its sequence of tab-separated fields; the fields drawn hold no           *)
(* whitespace of their own, so that only an empty field is blank.           *)

\* Entries the plot keeps (line 25).
window_size == 200

CALIBRATION_DONE == "===CALIBRATION_DONE==="

START == "===START==="

\* The strings drawn that begin with the given prefix (str.startswith).
Prefixed(prefix) ==
    CASE prefix = "Calibrating" -> {"Calibrating", "Calibrating..."}
      [] prefix = "timestamp"   -> {"timestamp", "timestamp_ms"}

\* line.startswith(prefix), the prefix holding no tab.
startswith(line, prefix) == line[1] \in Prefixed(prefix)

\* float(s): the number, or None where float raises ValueError.
float(s) ==
    CASE s = "0"   -> Some(0)
      [] s = "7"   -> Some(7)
      [] s = "10"  -> Some(10)
      [] s = "45"  -> Some(45)
      [] s = "-90" -> Some(-90)
      [] OTHER     -> None

\* raw.decode(...).strip().split("\t"): the tabs around blank fields at both
\* ends are whitespace and go; what is left is split.  An all-blank line is
\* one empty field.
RECURSIVE lstrip(_)
lstrip(fields) ==
    IF fields # << >> /\ Head(fields) = "" THEN lstrip(Tail(fields)) ELSE fields

RECURSIVE rstrip(_)
rstrip(fields) ==
    IF fields # << >> /\ fields[Len(fields)] = ""
    THEN rstrip(SubSeq(fields, 1, Len(fields) - 1))
    ELSE fields

strip_split(raw_fields) ==
    LET kept == rstrip(lstrip(raw_fields))
    IN  IF kept = << >> THEN << "" >> ELSE kept

\* dict(zip(headers, values)) for lists of one length: a later column of the
\* same name wins.
zip_row(hs, values) ==
    [h \in { hs[i] : i \in 1..Len(hs) } |->
        values[CHOOSE i \in 1..Len(hs) :
                  hs[i] = h /\ \A j \in (i + 1)..Len(hs) : hs[j] # h]]

\* A variant the properties must tell apart.  Lines taken as data before the
\* start sentinel.
not_reading_never(is_reading) == FALSE

\* if not reading: continue  (lines 73-74)
not_reading(is_reading) == ~is_reading

\* len(values) != len(headers)  (line 83)
malformed(values, hs) == Len(values) # Len(hs)

\* The plot series after the try block of lines 90-103 for a row, and how
\* the block ended: "" (done), "ValueError" (caught, line 102) or "KeyError"
\* (a column the header does not name: not caught).
plot_step(row, x, pitch, roll, yaw) ==
    LET x1 == Append(x, Len(x))
        cut(done, p1, r1, y1, how) ==
            [x_data |-> x1, pitch_data |-> p1, roll_data |-> r1, yaw_data |-> y1,
             ended |-> how]
    IN  IF "pitch" \notin DOMAIN row THEN cut(0, pitch, roll, yaw, "KeyError")
        ELSE IF float(row["pitch"]) = None THEN cut(0, pitch, roll, yaw, "ValueError")
        ELSE LET p1 == Append(pitch, float(row["pitch"])[1])
        IN  IF "roll" \notin DOMAIN row THEN cut(1, p1, roll, yaw, "KeyError")
        ELSE IF float(row["roll"]) = None THEN cut(1, p1, roll, yaw, "ValueError")
        ELSE LET r1 == Append(roll, float(row["roll"])[1])
        IN  IF "yaw" \notin DOMAIN row THEN cut(2, p1, r1, yaw, "KeyError")
        ELSE IF float(row["yaw"]) = None THEN cut(2, p1, r1, yaw, "ValueError")
        ELSE LET y1 == Append(yaw, float(row["yaw"])[1])
        IN  IF Len(x1) > window_size
            THEN [x_data |-> Tail(x1), pitch_data |-> Tail(p1), roll_data |-> Tail(r1),
                  yaw_data |-> Tail(y1), ended |-> ""]
            ELSE [x_data |-> x1, pitch_data |-> p1, roll_data |-> r1, yaw_data |-> y1,
                  ended |-> ""]

\* The lines the device is drawn to send, as received (before strip).
HeaderLine == << "timestamp", "pitch", "roll", "yaw" >>

ShortHeaderLine == << "timestamp_ms", "pitch" >>

GoodRow == << "10", "0", "45", "-90" >>

BadPitchRow == << "10", "abc", "45", "-90" >>

Lines ==
    { << "Calibrating..." >>, << CALIBRATION_DONE >>, << START >>,
      HeaderLine, ShortHeaderLine,
      GoodRow, BadPitchRow,
      << "10", "0", "45" >>,
      << "10", "0" >>,
      << "", "0", "45", "-90", "7" >>,
      << "10", "0", "45", "-90", "" >>,
      << "" >> }

\* What the device sends in a long run: the start sentinel, the header, then
\* rows of one kind, or of two kinds in turn.
Feeds == {"good", "bad_pitch", "bad_yaw", "bad_good"}

FeedRow(kind, n) ==
    CASE kind = "good"      -> GoodRow
      [] kind = "bad_pitch" -> BadPitchRow
      [] kind = "bad_yaw"   -> << "10", "0", "45", "x" >>
      [] kind = "bad_good"  -> IF n % 2 = 1 THEN BadPitchRow ELSE GoodRow

FeedLine(kind, n) ==
    IF n = 1 THEN << START >> ELSE IF n = 2 THEN HeaderLine ELSE FeedRow(kind, n)

----------------------------------------------------------------------------
VARIABLES
    fn_in,                \* the arguments of a function applied on its own
    fn_out,               \* what it returned or raised, None before
    scipy_build,          \* the installed scipy's handling of nan matrices
    calibration_results,  \* the caller's calibration set (align.py:229)
    args,                 \* the arguments of the running / last call
    pc,                   \* "idle", "loop" (inside the for), "raised"
    side_i,               \* index into sides of the next pass of the loop
    calibration_quats,    \* the local dictionary being filled
    at,                   \* the call of the loop body that raised
    exc,                  \* the exception propagating to the caller
    twin,                 \* a second run of the same call on another hip_data
    reading,              \* the reader's state (data process.py:15-26)
    calibrating,
    headers,
    data_rows,
    sample_count,
    x_data,
    pitch_data,
    roll_data,
    yaw_data,
    alive,                \* the animation still calls update()
    raw,                  \* the line read last, as received
    sent,                 \* how many lines have been read
    feed,                 \* what the device sends: "any" line, or a long run
    all_frames_quats,     \* the loaded recording (human_move.py:139)
    frame_index,
    target_quats_ordered,
    initial_guess,
    play_pc,              \* where the playback script stands
    played                \* the indexes used at line 150, in order

playVars == << all_frames_quats, frame_index, target_quats_ordered, initial_guess,
               play_pc, played >>

readerVars == << reading, calibrating, headers, data_rows, sample_count, x_data,
                 pitch_data, roll_data, yaw_data, alive, raw, sent, feed >>

vars == << fn_in, fn_out, scipy_build, calibration_results, args, pc, side_i,
           calibration_quats, at, exc, twin, readerVars, playVars >>

callVars == << calibration_results, args, pc, side_i, calibration_quats, at, exc >>

EmptyDict == << >>

NoCall ==
    /\ calibration_results = None
    /\ args = None
    /\ pc = "idle"
    /\ side_i = 1
    /\ calibration_quats = EmptyDict
    /\ at = ""
    /\ exc = NoExc

NoFn == [fn |-> "none"]

\* The reader's module state as the script sets it up (lines 15-26).
ReaderStart ==
    /\ reading = FALSE
    /\ calibrating = TRUE
    /\ headers = << >>
    /\ data_rows = << >>
    /\ sample_count = 0
    /\ x_data = << >>
    /\ pitch_data = << >>
    /\ roll_data = << >>
    /\ yaw_data = << >>
    /\ alive = TRUE
    /\ raw = None
    /\ sent = 0

\* The reader is not part of the run.
NoReader == ReaderStart /\ feed = "none"

\* The playback script before its main loop (human_move.py:110, 138).
PlayStart ==
    /\ all_frames_quats = None
    /\ frame_index = 0
    /\ target_quats_ordered = << >>
    /\ initial_guess = << >>
    /\ played = << >>

\* The playback script is not part of the run.
NoPlay == PlayStart /\ play_pc = "idle"

NoTwin ==
    [args |-> None, hip_data |-> None, pc |-> "idle", side_i |-> 1,
     calibration_quats |-> EmptyDict, calibration_results |-> None]

----------------------------------------------------------------------------
(* find_rotation_axis on its own: the inputs are drawn, then it is applied. *)

AxisInit ==
    /\ fn_in \in { [fn |-> "find_rotation_axis", proximal_q |-> pd[1],
                    distal_q |-> pd[2], fs |-> f] : pd \in TrialPairs, f \in FsValues }
    /\ fn_out = None
    /\ scipy_build = "nan_passes"
    /\ NoCall
    /\ twin = NoTwin
    /\ NoPlay
    /\ NoReader

AxisApply ==
    /\ fn_out = None
    /\ \E r \in find_rotation_axis(fn_in.proximal_q, fn_in.distal_q, fn_in.fs) :
          fn_out' = Some(r)
    /\ UNCHANGED << playVars, readerVars, fn_in, scipy_build, callVars, twin >>

AxisNext == AxisApply

SpecAxis == AxisInit /\ [][AxisNext]_vars

----------------------------------------------------------------------------
(* find_rotation_axis on a trial and on the same trial with every sample   *)
(* of both streams multiplied on the left by one constant rotation.        *)

\* The constant rotations drawn, [w,x,y,z].
CommonTurns == {QI, QX, QZ}

\* R * q for every sample q of the stream.
TurnedLeft(R, quats) == Tup([i \in 1..Len(quats) |-> QMul(R, quats[i])])

\* The trials and rotations for which the turned trial is representable too.
TurnedPairs ==
    { x \in TrialPairs \X CommonTurns :
        Representable(TurnedLeft(x[2], x[1][1]), TurnedLeft(x[2], x[1][2])) }

TurnInit ==
    /\ fn_in \in { [fn |-> "find_rotation_axis twice", proximal_q |-> x[1][1],
                    distal_q |-> x[1][2], fs |-> FS, R |-> x[2]] : x \in TurnedPairs }
    /\ fn_out = None
    /\ scipy_build = "nan_passes"
    /\ NoCall
    /\ twin = NoTwin
    /\ NoPlay
    /\ NoReader

\* Both applications; what each can come to is kept as a set.
TurnApply ==
    /\ fn_out = None
    /\ fn_out' = Some([plain  |-> find_rotation_axis(fn_in.proximal_q, fn_in.distal_q,
                                                     fn_in.fs),
                       turned |-> find_rotation_axis(TurnedLeft(fn_in.R, fn_in.proximal_q),
                                                     TurnedLeft(fn_in.R, fn_in.distal_q),
                                                     fn_in.fs)])
    /\ UNCHANGED << playVars, readerVars, fn_in, scipy_build, callVars, twin >>

TurnNext == TurnApply

SpecTurn == TurnInit /\ [][TurnNext]_vars

----------------------------------------------------------------------------
(* create_anatomical_frame on its own *)

FrameInit ==
    /\ fn_in \in { [fn |-> "create_anatomical_frame", primary_axis |-> uv[1],
                    longitudinal_axis |-> uv[2]] : uv \in FramePairs }
    /\ fn_out = None
    /\ scipy_build \in Builds
    /\ NoCall
    /\ twin = NoTwin
    /\ NoPlay
    /\ NoReader

FrameApply ==
    /\ fn_out = None
    /\ fn_out' = Some(create_anatomical_frame(fn_in.primary_axis,
                                              fn_in.longitudinal_axis, scipy_build))
    /\ UNCHANGED << playVars, readerVars, fn_in, scipy_build, callVars, twin >>

FrameNext == FrameApply

SpecFrame == FrameInit /\ [][FrameNext]_vars

\* create_anatomical_frame on a pair of axes and on the same pair with the
\* primary axis negated (the sign an eigenvector may come with).
FlipInit ==
    /\ fn_in \in { [fn |-> "create_anatomical_frame twice", primary_axis |-> uv[1],
                    longitudinal_axis |-> uv[2]] : uv \in FramePairs }
    /\ fn_out = None
    /\ scipy_build \in Builds
    /\ NoCall
    /\ twin = NoTwin
    /\ NoPlay
    /\ NoReader

FlipApply ==
    /\ fn_out = None
    /\ fn_out' = Some([plain   |-> create_anatomical_frame(fn_in.primary_axis,
                                       fn_in.longitudinal_axis, scipy_build),
                       negated |-> create_anatomical_frame(Neg(fn_in.primary_axis),
                                       fn_in.longitudinal_axis, scipy_build)])
    /\ UNCHANGED << playVars, readerVars, fn_in, scipy_build, callVars, twin >>

FlipNext == FlipApply

SpecFlip == FlipInit /\ [][FlipNext]_vars

----------------------------------------------------------------------------
(* Applying a calibration quaternion to a raw sample, align.py:246-259 *)

\* The raw samples and the calibration quaternions drawn, [w,x,y,z].
raw_quats == { to_wxyz_quat(q) : q \in CubeQuats }

cal_quats == { to_wxyz_quat(q) : q \in CubeQuats }

\* A variant the properties must tell apart.  The calibration rotation
\* composed as it is, not inverted.
anatomical_rot_direct(raw_q, q_cal) ==
    Compose(Primitive(to_scipy_quat(raw_q)), Primitive(to_scipy_quat(q_cal)))

\* anatomical_rot = raw_rot * cal_rot.inv()  (lines 252-257); from_quat of
\* one quaternion normalises it.
anatomical_rot(raw_q, q_cal) ==
    Compose(Primitive(to_scipy_quat(raw_q)), Conj(Primitive(to_scipy_quat(q_cal))))

\* to_wxyz_quat(anatomical_rot.as_quat())  (line 259)
q_anatomical(raw_q, q_cal) == to_wxyz_quat(anatomical_rot(raw_q, q_cal))

ApplyInit ==
    /\ fn_in \in { [fn |-> "apply_calibration", raw_q |-> r, q_cal |-> c]
                   : r \in raw_quats, c \in cal_quats }
    /\ fn_out = None
    /\ scipy_build = "nan_passes"
    /\ NoCall
    /\ twin = NoTwin
    /\ NoPlay
    /\ NoReader

ApplyCal ==
    /\ fn_out = None
    /\ fn_out' = Some(q_anatomical(fn_in.raw_q, fn_in.q_cal))
    /\ UNCHANGED << playVars, readerVars, fn_in, scipy_build, callVars, twin >>

ApplyNext == ApplyCal

SpecApply == ApplyInit /\ [][ApplyNext]_vars

----------------------------------------------------------------------------
(* perform_calibration called by a caller that keeps the returned set *)

Init ==
    /\ fn_in = NoFn
    /\ fn_out = None
    /\ scipy_build \in Builds
    /\ NoCall
    /\ twin = NoTwin
    /\ NoPlay
    /\ NoReader

\* calibration_results = perform_calibration(...): entry, line 107-111.
Call ==
    /\ pc = "idle"
    /\ \E a \in ArgSets : args' = Some(a)
    /\ calibration_quats' = EmptyDict
    /\ side_i' = 1
    /\ pc' = "loop"
    /\ at' = ""
    /\ exc' = NoExc
    /\ UNCHANGED << playVars, readerVars, fn_in, fn_out, scipy_build, calibration_results, twin >>

\* One pass of "for side in sides" (lines 113-170).
Iterate ==
    /\ pc = "loop"
    /\ side_i <= Len(sides)
    /\ LET side == sides[side_i]
           a    == args[1]
       IN  \E knee \in knee_outcomes(a, side),
              hip \in hip_outcomes(a.hip_data, side, a.fs),
              ankle \in ankle_outcomes(a, side) :
             LET r == loop_body(side, a.static_data, scipy_build, knee, hip, ankle)
             IN  IF r.ok
                 THEN /\ calibration_quats' = stored(calibration_quats, side, r.quats)
                      /\ side_i' = side_i + 1
                      /\ calibration_results' =
                            caller_during_call(calibration_results,
                                               stored(calibration_quats, side, r.quats))
                      /\ UNCHANGED << pc, at, exc >>
                 ELSE /\ pc' = "raised"
                      /\ at' = r.at
                      /\ exc' = r.exc
                      /\ calibration_results' =
                            caller_during_call(calibration_results, calibration_quats)
                      /\ UNCHANGED << side_i, calibration_quats >>
    /\ UNCHANGED << playVars, readerVars, fn_in, fn_out, scipy_build, args, twin >>

\* return calibration_quats (line 172), assigned by the caller (line 229).
Return ==
    /\ pc = "loop"
    /\ side_i > Len(sides)
    /\ calibration_results' = Some(calibration_quats)
    /\ pc' = "idle"
    /\ UNCHANGED << playVars, readerVars, fn_in, fn_out, scipy_build, args, side_i, calibration_quats, at, exc,
                    twin >>

Next == Call \/ Iterate \/ Return

Spec == Init /\ [][Next]_vars

----------------------------------------------------------------------------
(* Two runs of one call of perform_calibration that are given the same     *)
(* static, knee and ankle data and sampling rate, and each its own         *)
(* hip_data.  The library is a function of its input: what the knee and    *)
(* ankle calls come to is the same in both runs; the hip calls are apart.  *)

PairCall ==
    /\ pc = "idle"
    /\ args = None
    /\ \E a \in ArgSets : args' = Some(a)
    /\ \E h \in HipDicts : twin' = [NoTwin EXCEPT !.hip_data = Some(h), !.pc = "loop"]
    /\ calibration_quats' = EmptyDict
    /\ side_i' = 1
    /\ pc' = "loop"
    /\ at' = ""
    /\ exc' = NoExc
    /\ UNCHANGED << playVars, readerVars, fn_in, fn_out, scipy_build, calibration_results >>

\* Both runs in the loop make their pass for the same side; a run that has
\* raised stays where it is.
PairIterate ==
    /\ (pc = "loop" /\ side_i <= Len(sides)) \/ (twin.pc = "loop" /\ twin.side_i <= Len(sides))
    /\ LET i    == IF pc = "loop" THEN side_i ELSE twin.side_i
           side == sides[i]
           a    == args[1]
       IN  \E knee \in knee_outcomes(a, side),
              hip1 \in hip_outcomes(a.hip_data, side, a.fs),
              hip2 \in hip_outcomes(twin.hip_data[1], side, a.fs),
              ankle \in ankle_outcomes(a, side) :
             LET r1 == loop_body(side, a.static_data, scipy_build, knee, hip1, ankle)
                 r2 == loop_body(side, a.static_data, scipy_build, knee, hip2, ankle)
             IN  /\ IF pc # "loop"
                    THEN UNCHANGED << pc, side_i, calibration_quats, at, exc >>
                    ELSE IF r1.ok
                    THEN /\ calibration_quats' = stored(calibration_quats, side, r1.quats)
                         /\ side_i' = side_i + 1
                         /\ UNCHANGED << pc, at, exc >>
                    ELSE /\ pc' = "raised"
                         /\ at' = r1.at
                         /\ exc' = r1.exc
                         /\ UNCHANGED << side_i, calibration_quats >>
                 /\ twin' =
                      IF twin.pc # "loop" THEN twin
                      ELSE IF r2.ok
                      THEN [twin EXCEPT !.calibration_quats = stored(@, side, r2.quats),
                                        !.side_i = @ + 1]
                      ELSE [twin EXCEPT !.pc = "raised"]
    /\ UNCHANGED << playVars, readerVars, fn_in, fn_out, scipy_build, args, calibration_results >>

\* Each run that has finished the loop returns its dictionary.
PairReturn ==
    /\ pc # "loop" \/ side_i > Len(sides)
    /\ twin.pc # "loop" \/ twin.side_i > Len(sides)
    /\ pc = "loop" \/ twin.pc = "loop"
    /\ IF pc = "loop"
       THEN calibration_results' = Some(calibration_quats) /\ pc' = "idle"
       ELSE UNCHANGED << calibration_results, pc >>
    /\ twin' = IF twin.pc = "loop"
               THEN [twin EXCEPT !.calibration_results = Some(twin.calibration_quats),
                                 !.pc = "idle"]
               ELSE twin
    /\ UNCHANGED << playVars, readerVars, fn_in, fn_out, scipy_build, args, side_i, calibration_quats, at, exc >>

PairNext == PairCall \/ PairIterate \/ PairReturn

SpecPair == Init /\ [][PairNext]_vars

----------------------------------------------------------------------------
(* Two runs of one call of perform_calibration whose arguments agree on    *)
(* every stream of one side at least.  A call of find_rotation_axis that   *)
(* is given the same streams in both runs comes to the same in both.       *)

\* The sides all of whose streams are the same in the two sessions.
KeptSides(a1, a2) ==
    { sd \in { sides[i] : i \in 1..Len(sides) } :
        \A t \in Trials : \A k \in DOMAIN a1[t] : k[1] = sd => a1[t][k] = a2[t][k] }

SidesCall ==
    /\ pc = "idle"
    /\ args = None
    /\ \E a1 \in ArgSets, a2 \in ArgSets :
          /\ a1 # a2
          /\ KeptSides(a1, a2) # {}
          /\ args' = Some(a1)
          /\ twin' = [NoTwin EXCEPT !.args = Some(a2), !.hip_data = Some(a2.hip_data),
                                    !.pc = "loop"]
    /\ calibration_quats' = EmptyDict
    /\ side_i' = 1
    /\ pc' = "loop"
    /\ at' = ""
    /\ exc' = NoExc
    /\ UNCHANGED << playVars, readerVars, fn_in, fn_out, scipy_build, calibration_results >>

\* Both runs in the loop make their pass for the same side.
SidesIterate ==
    /\ (pc = "loop" /\ side_i <= Len(sides)) \/ (twin.pc = "loop" /\ twin.side_i <= Len(sides))
    /\ LET i    == IF pc = "loop" THEN side_i ELSE twin.side_i
           side == sides[i]
           a1   == args[1]
           a2   == twin.args[1]
       IN  \E knee1 \in knee_outcomes(a1, side), knee2 \in knee_outcomes(a2, side),
              hip1 \in hip_outcomes(a1.hip_data, side, a1.fs),
              hip2 \in hip_outcomes(a2.hip_data, side, a2.fs),
              ankle1 \in ankle_outcomes(a1, side), ankle2 \in ankle_outcomes(a2, side) :
             LET r1 == loop_body(side, a1.static_data, scipy_build, knee1, hip1, ankle1)
                 r2 == loop_body(side, a2.static_data, scipy_build, knee2, hip2, ankle2)
             IN  /\ knee_call(a1, side) = knee_call(a2, side) => knee1 = knee2
                 /\ hip_call(a1.hip_data, side, a1.fs) = hip_call(a2.hip_data, side, a2.fs)
                        => hip1 = hip2
                 /\ ankle_call(a1, side) = ankle_call(a2, side) => ankle1 = ankle2
                 /\ IF pc # "loop"
                    THEN UNCHANGED << pc, side_i, calibration_quats, at, exc >>
                    ELSE IF r1.ok
                    THEN /\ calibration_quats' = stored(calibration_quats, side, r1.quats)
                         /\ side_i' = side_i + 1
                         /\ UNCHANGED << pc, at, exc >>
                    ELSE /\ pc' = "raised"
                         /\ at' = r1.at
                         /\ exc' = r1.exc
                         /\ UNCHANGED << side_i, calibration_quats >>
                 /\ twin' =
                      IF twin.pc # "loop" THEN twin
                      ELSE IF r2.ok
                      THEN [twin EXCEPT !.calibration_quats = stored(@, side, r2.quats),
                                        !.side_i = @ + 1]
                      ELSE [twin EXCEPT !.pc = "raised"]
    /\ UNCHANGED << playVars, readerVars, fn_in, fn_out, scipy_build, args, calibration_results >>

SidesNext == SidesCall \/ SidesIterate \/ PairReturn

SpecSides == Init /\ [][SidesNext]_vars

----------------------------------------------------------------------------
(* The reader: update() reads the waiting lines one by one (lines 47-103)  *)
(* and, once a second, prints and resets the sample count (lines 106-110). *)

calVars == << fn_in, fn_out, scipy_build, callVars, twin >>

\* One pass of the while loop on the line received.
ReadLine(received) ==
    /\ alive
    /\ raw' = Some(received)
    /\ sent' = sent + 1
    /\ LET line == strip_split(received)
       IN  IF startswith(line, "Calibrating")
           THEN /\ calibrating' = TRUE
                /\ UNCHANGED << reading, headers, data_rows, sample_count, x_data,
                                pitch_data, roll_data, yaw_data, alive >>
           ELSE IF line = << CALIBRATION_DONE >>
           THEN /\ calibrating' = FALSE
                /\ UNCHANGED << reading, headers, data_rows, sample_count, x_data,
                                pitch_data, roll_data, yaw_data, alive >>
           ELSE IF line = << START >>
           THEN /\ reading' = TRUE
                /\ UNCHANGED << calibrating, headers, data_rows, sample_count, x_data,
                                pitch_data, roll_data, yaw_data, alive >>
           ELSE IF not_reading(reading)
           THEN UNCHANGED << reading, calibrating, headers, data_rows, sample_count,
                             x_data, pitch_data, roll_data, yaw_data, alive >>
           ELSE IF startswith(line, "timestamp")
           THEN /\ headers' = line
                /\ UNCHANGED << reading, calibrating, data_rows, sample_count, x_data,
                                pitch_data, roll_data, yaw_data, alive >>
           ELSE IF malformed(line, headers)
           THEN UNCHANGED << reading, calibrating, headers, data_rows, sample_count,
                             x_data, pitch_data, roll_data, yaw_data, alive >>
           ELSE LET row  == zip_row(headers, line)
                    plot == plot_step(row, x_data, pitch_data, roll_data, yaw_data)
                IN  /\ data_rows' = Append(data_rows, row)
                    /\ sample_count' = sample_count + 1
                    /\ x_data' = plot.x_data
                    /\ pitch_data' = plot.pitch_data
                    /\ roll_data' = plot.roll_data
                    /\ yaw_data' = plot.yaw_data
                    /\ alive' \in (IF plot.ended = "KeyError" THEN BOOLEAN ELSE {TRUE})
                    /\ UNCHANGED << reading, calibrating, headers >>
    /\ UNCHANGED << feed, calVars, playVars >>

\* Lines 106-110, a second after the last time.
RateOutput ==
    /\ alive
    /\ sample_count > 0
    /\ sample_count' = 0
    /\ UNCHANGED << reading, calibrating, headers, data_rows, x_data, pitch_data,
                    roll_data, yaw_data, alive, raw, sent, feed, calVars,
                    playVars >>

ReaderInit ==
    /\ fn_in = NoFn
    /\ fn_out = None
    /\ scipy_build = "nan_passes"
    /\ NoCall
    /\ twin = NoTwin
    /\ NoPlay
    /\ ReaderStart
    /\ feed = "any"

\* The device sends any of the drawn lines.
Receive ==
    /\ sent < MaxLines
    /\ \E received \in Lines : ReadLine(received)

ReaderNext == Receive \/ RateOutput

SpecReader == ReaderInit /\ [][ReaderNext]_vars

\* A long run of the device.
WindowInit ==
    /\ fn_in = NoFn
    /\ fn_out = None
    /\ scipy_build = "nan_passes"
    /\ NoCall
    /\ twin = NoTwin
    /\ NoPlay
    /\ ReaderStart
    /\ feed \in Feeds

Feed ==
    /\ sent < window_size + MaxFeed
    /\ ReadLine(FeedLine(feed, sent + 1))

\* The rate is printed at the same points of every long run.
Tick ==
    /\ sample_count = window_size \div 2
    /\ RateOutput

WindowNext == Feed \/ Tick

SpecWindow == WindowInit /\ [][WindowNext]_vars

----------------------------------------------------------------------------
(* The pose-fitting playback of human_move.py: the recording is loaded     *)
(* (line 139) and its frames are fitted one after the other, for ever      *)
(* (lines 141-173).                                                        *)

joint_names == << "hip_r", "knee_r", "ankle_r", "hip_l", "knee_l", "ankle_l" >>

link_names == << "thigh_r", "shank_r", "foot_r", "thigh_l", "shank_l", "foot_l" >>

\* A frame: one (x, y, z, w) quaternion per link, the links held alike.
FrameOf(q) == Tup([i \in 1..Len(link_names) |-> to_scipy_quat(q)])

RECURSIVE ListsOf(_, _)
ListsOf(S, n) ==
    IF n = 0 THEN { << >> }
    ELSE { Append(l, x) : l \in ListsOf(S, n - 1), x \in S }

\* What load_and_preprocess_data returns: None when the file is not found
\* (lines 22-24), else the list of the frames of its rows, none for a file
\* of no rows (lines 40-67).
Recordings ==
    {None} \cup
    { Some(l) : l \in UNION { ListsOf({FrameOf(QI), FrameOf(QX)}, n) : n \in 0..MaxFrames } }

\* result.x of minimize: joint angles, here all joints alike.
FitResults == { Tup([i \in 1..Len(joint_names) |-> a]) : a \in {0, 1} }

\* if frame_index >= len(all_frames_quats): frame_index = 0  (lines 146-148)
wrapped(index, frames) == IF index >= Len(frames) THEN 0 ELSE index

\* Line 139 and, for a loaded recording, lines 141-143.
Load ==
    /\ play_pc = "load"
    /\ \E loaded \in Recordings :
          /\ all_frames_quats' = loaded
          /\ IF loaded # None
             THEN /\ initial_guess' = Tup([i \in 1..Len(joint_names) |-> 0])
                  /\ frame_index' = 0
                  /\ play_pc' = "top"
             ELSE /\ play_pc' = "exit"
                  /\ UNCHANGED << initial_guess, frame_index >>
    /\ UNCHANGED << target_quats_ordered, played, readerVars, calVars >>

\* Lines 146-150: the index is reset past the end, then used.  A list index
\* out of range raises IndexError, which nothing catches.
Select ==
    /\ play_pc = "top"
    /\ Len(played) < MaxPlayed
    /\ LET frames == all_frames_quats[1]
           index  == wrapped(frame_index, frames)
       IN  /\ frame_index' = index
           /\ played' = Append(played, index)
           /\ IF index < Len(frames)
              THEN /\ target_quats_ordered' = frames[index + 1]
                   /\ play_pc' = "fit"
              ELSE /\ play_pc' = "IndexError"
                   /\ UNCHANGED target_quats_ordered
    /\ UNCHANGED << all_frames_quats, initial_guess, readerVars, calVars >>

\* Lines 152-173: the frame is fitted, the fit seeds the next one, and the
\* index moves on.
Fit ==
    /\ play_pc = "fit"
    /\ initial_guess' \in FitResults
    /\ frame_index' = frame_index + 1
    /\ play_pc' = "top"
    /\ UNCHANGED << all_frames_quats, target_quats_ordered, played, readerVars, calVars >>

PlayInit ==
    /\ fn_in = NoFn
    /\ fn_out = None
    /\ scipy_build = "nan_passes"
    /\ NoCall
    /\ twin = NoTwin
    /\ NoReader
    /\ PlayStart
    /\ play_pc = "load"

PlayNext == Load \/ Select \/ Fit

SpecPlay == PlayInit /\ [][PlayNext]_vars

----------------------------------------------------------------------------
(* Properties *)

\* find_rotation_axis has been applied to the drawn streams.
AxisApplied == fn_in.fn = "find_rotation_axis" /\ fn_out # None

\* create_anatomical_frame has been applied to the drawn axes.
FrameApplied == fn_in.fn = "create_anatomical_frame" /\ fn_out # None

\* Some angular-velocity sample of the call's relative motion is not zero.
HasMotion(call) ==
    LET w == relative_ang_vel(relative_rotation(call[1], call[2]), call[3])
    IN  \E i \in 1..Len(w) : w[i] # Zero3

\* The side's entries have been stored in the local dictionary.
Stored(side) == Key(side, "thigh") \in DOMAIN calibration_quats

\* The entry is the (w,x,y,z) quaternion of the frame built on the two axes.
IsFrameOf(entry, primary_axis, longitudinal_axis, build) ==
    LET frame == create_anatomical_frame(primary_axis, longitudinal_axis, build)
    IN  frame.ok /\ entry = to_wxyz_quat(frame.quat)

\* The side's three entries are the frames of the knee axis in the thigh, the
\* knee axis in the shank and the ankle axis in the foot, each with the
\* segment's static long axis, for some result of the knee and ankle calls.
FixedAssignment(a, side, build, cq) ==
    \E knee \in knee_outcomes(a, side), ankle \in ankle_outcomes(a, side) :
        /\ knee.ok
        /\ ankle.ok
        /\ IsFrameOf(cq[Key(side, "thigh")], knee.axis_p,
                     LongAxisTable[a.static_data[Key(side, "thigh")]], build)
        /\ IsFrameOf(cq[Key(side, "shank")], knee.axis_d,
                     LongAxisTable[a.static_data[Key(side, "shank")]], build)
        /\ IsFrameOf(cq[Key(side, "foot")], ankle.axis_d,
                     LongAxisTable[a.static_data[Key(side, "foot")]], build)

\* The medio-lateral axes a segment's entry can be built on.
MLAxes(a, side, segment) ==
    IF segment = "thigh" THEN { k.axis_p : k \in { r \in knee_outcomes(a, side) : r.ok } }
    ELSE IF segment = "shank" THEN { k.axis_d : k \in { r \in knee_outcomes(a, side) : r.ok } }
    ELSE { k.axis_d : k \in { r \in ankle_outcomes(a, side) : r.ok } }

\* Static, knee and ankle data calibrate the side when the hip call succeeds.
Suffices(a, side, build) ==
    \E knee \in knee_outcomes(a, side), ankle \in ankle_outcomes(a, side) :
        loop_body(side, a.static_data, build, knee,
                  Returned(global_up_vector, global_up_vector), ankle).ok

\* Both runs of the pair have returned a mapping.
BothReturned ==
    /\ pc = "idle"
    /\ twin.pc = "idle"
    /\ calibration_results # None
    /\ twin.calibration_results # None

\* C1: applied to two streams of equal length N, find_rotation_axis ends with
\* the too-few-data error and no axis when N - 1 < 2, and does not end with
\* that error when N >= 3.
C1_TooFewData ==
    (AxisApplied /\ Len(fn_in.proximal_q) = Len(fn_in.distal_q)) =>
        LET N == Len(fn_in.proximal_q)
            r == fn_out[1]
        IN  /\ N - 1 < 2 => r = Raised(TooFewData)
            /\ N >= 3 => r.exc # TooFewData

\* Two streams of two samples each were given and the error was raised.
C1_Witness ==
    /\ AxisApplied
    /\ Len(fn_in.proximal_q) = 2
    /\ Len(fn_in.distal_q) = 2
    /\ fn_out[1] = Raised(TooFewData)

\* C2: applied to streams of different lengths, find_rotation_axis ends with
\* an error and returns no axis.
C2_UnequalRejected ==
    (AxisApplied /\ Len(fn_in.proximal_q) # Len(fn_in.distal_q)) =>
        /\ ~fn_out[1].ok
        /\ fn_out[1].axis_p = None
        /\ fn_out[1].axis_d = None

\* C3: applied to a primary and a longitudinal axis that are parallel,
\* create_anatomical_frame ends with an error and returns no rotation.
C3_ParallelRejected ==
    (FrameApplied /\ Parallel(fn_in.primary_axis, fn_in.longitudinal_axis)) =>
        /\ ~fn_out[1].ok
        /\ fn_out[1].quat = None

\* C4: the error with which perform_calibration ends names the side being
\* processed, and the trial or the segment whose step failed.
C4_ErrorContext ==
    pc = "raised" => {sides[side_i], at} \subseteq exc.names

\* C5: a side's entries are stored only when its knee trial and its ankle
\* trial both hold relative motion.
C5_NoDefaultAxis ==
    \A i \in 1..Len(sides) :
        (args # None /\ Stored(sides[i])) =>
            /\ HasMotion(knee_call(args[1], sides[i]))
            /\ HasMotion(ankle_call(args[1], sides[i]))

\* C6: the entries stored for a side are the frames built on the knee axis
\* in the thigh frame (thigh), the knee axis in the shank frame (shank) and
\* the ankle axis in the foot frame (foot); the ankle axis in the shank frame
\* enters none of them.
C6_FixedAxes ==
    \A i \in 1..Len(sides) :
        (args # None /\ Stored(sides[i])) =>
            FixedAssignment(args[1], sides[i], scipy_build, calibration_quats)

\* Both sides were stored from trials with motion, every frame a proper one.
C6_Witness ==
    /\ pc = "loop"
    /\ side_i > Len(sides)
    /\ \A k \in AllKeys : calibration_quats[k] # NaN4

\* C7: two runs that differ only in hip_data and both return, return the
\* same mapping.
C7_HipUnused ==
    BothReturned => calibration_results = twin.calibration_results

\* Both runs returned, and their hip_data differ.
C7_Witness ==
    /\ BothReturned
    /\ twin.hip_data[1] # args[1].hip_data

\* C8: a call whose static, knee and ankle data calibrate the side does not
\* end in the hip step.
C8_HipNonFatal ==
    (pc = "raised" /\ at = "hip") => ~Suffices(args[1], sides[side_i], scipy_build)

\* C9: what the caller holds changes only when a call returns, and then to
\* the local dictionary with all its keys; in every other step, a failing
\* one included, it stays as it was.
C9_AtomicPublication ==
    [][ calibration_results' # calibration_results =>
            /\ pc = "loop"
            /\ pc' = "idle"
            /\ DOMAIN calibration_quats = AllKeys
            /\ calibration_results' = Some(calibration_quats) ]_vars

\* A call failed on the right side after the left side's entries were
\* stored, while the caller held the set of an earlier call.
C9_Witness ==
    /\ pc = "raised"
    /\ side_i = 2
    /\ Stored("left")
    /\ calibration_results # None
    /\ DOMAIN calibration_results[1] = AllKeys

\* C10: a returned mapping has exactly the six keys {left, right} x
\* {thigh, shank, foot}; every value has four elements, and read as
\* (w, x, y, z) it is the rotation taking the x unit vector to the segment's
\* medio-lateral axis.
C10_SixKeys ==
    (pc = "idle" /\ calibration_results # None) =>
        LET m == calibration_results[1]
        IN  /\ DOMAIN m = {"left", "right"} \X {"thigh", "shank", "foot"}
            /\ Cardinality(DOMAIN m) = 6
            /\ \A k \in DOMAIN m :
                 /\ DOMAIN m[k] = 1..4
                 /\ m[k] # NaN4 =>
                      Apply(to_scipy_quat(m[k]), <<1, 0, 0>>) \in MLAxes(args[1], k[1], k[2])

\* A call returned a mapping of proper quaternions.
C10_Witness ==
    /\ pc = "idle"
    /\ calibration_results # None
    /\ \A k \in DOMAIN calibration_results[1] : calibration_results[1][k] # NaN4

\* C11: two runs whose arguments agree on every stream of a side and both
\* return, return the same three entries for that side, whatever the other
\* side's streams are.
C11_SidesIndependent ==
    (BothReturned /\ twin.args # None) =>
        \A sd \in KeptSides(args[1], twin.args[1]) : \A g \in Segments :
            calibration_results[1][Key(sd, g)] = twin.calibration_results[1][Key(sd, g)]

\* Both runs returned, on sessions that differ in a stream of the right side
\* only, and their right sides came out differently.
C11_Witness ==
    /\ BothReturned
    /\ twin.args # None
    /\ KeptSides(args[1], twin.args[1]) = {"left"}
    /\ \E g \in Segments :
          calibration_results[1][Key("right", g)] # twin.calibration_results[1][Key("right", g)]

\* The i-th relative rotation of the two streams: distal[i] composed with
\* the inverse of proximal[i].
RelAt(proximal_q, distal_q, i) ==
    Compose(Primitive(to_scipy_quat(distal_q[i])),
            Conj(Primitive(to_scipy_quat(proximal_q[i]))))

\* C13: on two streams of N samples each find_rotation_axis works on exactly
\* N - 1 angular-velocity samples, the i-th being the rotation vector of
\* inverse(rel[i]) composed with rel[i+1], times fs; none comes from the pair
\* of the last and the first relative rotation.
C13_ConsecutivePairs ==
    (AxisApplied /\ Len(fn_in.proximal_q) = Len(fn_in.distal_q)) =>
        LET N == Len(fn_in.proximal_q)
            w == relative_ang_vel(relative_rotation(fn_in.proximal_q, fn_in.distal_q),
                                  fn_in.fs)
        IN  /\ Len(w) = N - 1
            /\ \A i \in 1..(N - 1) :
                 w[i] = Scale(fn_in.fs,
                              RotVec(Compose(Conj(RelAt(fn_in.proximal_q, fn_in.distal_q, i)),
                                             RelAt(fn_in.proximal_q, fn_in.distal_q, i + 1))))

\* An axis was returned for streams whose last relative rotation is not the
\* first one: the pair around the end would have given a sample that is not zero.
C13_Witness ==
    /\ AxisApplied
    /\ Len(fn_in.proximal_q) = Len(fn_in.distal_q)
    /\ Len(fn_in.proximal_q) >= 3
    /\ fn_out[1].ok
    /\ RelAt(fn_in.proximal_q, fn_in.distal_q, Len(fn_in.proximal_q))
         # RelAt(fn_in.proximal_q, fn_in.distal_q, 1)

\* C14: for a primary and a longitudinal axis that are not parallel,
\* create_anatomical_frame returns a rotation whose matrix has the columns
\* x, y, z with x the normalised primary axis, each of length 1, orthogonal
\* to one another, x cross y = z and determinant +1.
C14_Orthonormal ==
    (FrameApplied /\ ~Parallel(fn_in.primary_axis, fn_in.longitudinal_axis)) =>
        LET r == fn_out[1]
            x == r.axes[1]
            y == r.axes[2]
            z == r.axes[3]
            m == rotation_matrix(r.axes)
        IN  /\ r.ok
            /\ Scale(Dot(x, x), fn_in.primary_axis)
                 = Scale(Dot(x, fn_in.primary_axis), x)
            /\ Dot(x, fn_in.primary_axis) > 0
            /\ Dot(x, x) = 1 /\ Dot(y, y) = 1 /\ Dot(z, z) = 1
            /\ Dot(x, y) = 0 /\ Dot(y, z) = 0 /\ Dot(z, x) = 0
            /\ Cross(x, y) = z
            /\ Det(m, <<1, 2, 3>>, <<1, 2, 3>>) = 1
            /\ Apply(r.quat, <<1, 0, 0>>) = x
            /\ Apply(r.quat, <<0, 1, 0>>) = y
            /\ Apply(r.quat, <<0, 0, 1>>) = z

\* A frame was built on a longitudinal axis that leans towards the primary
\* axis: the y column is not the longitudinal axis itself.
C14_Witness ==
    /\ FrameApplied
    /\ fn_out[1].ok
    /\ Dot(fn_in.primary_axis, fn_in.longitudinal_axis) # 0
    /\ ~Parallel(fn_in.primary_axis, fn_in.longitudinal_axis)

\* The calibration has been applied to the drawn raw sample.
CalApplied == fn_in.fn = "apply_calibration" /\ fn_out # None

\* C15: the anatomical orientation raw * inverse(cal), composed with cal
\* again, is the raw orientation.
C15_RoundTrip ==
    CalApplied =>
        to_wxyz_quat(Compose(Primitive(to_scipy_quat(fn_out[1])),
                             Primitive(to_scipy_quat(fn_in.q_cal))))
          = fn_in.raw_q

\* A calibration that is neither the identity nor a half turn was applied:
\* the anatomical orientation is not the raw one.
C15_Witness ==
    /\ CalApplied
    /\ fn_out[1] # fn_in.raw_q
    /\ fn_in.q_cal[1] # 0
    /\ fn_in.q_cal # QI
    /\ fn_in.q_cal # Neg(QI)

\* C16: multiplying every sample of both streams on the left by one rotation
\* leaves every relative rotation, and with it the axes find_rotation_axis
\* can return, as they were.
C16_CommonLeftTurn ==
    (fn_in.fn = "find_rotation_axis twice" /\ fn_out # None
       /\ Len(fn_in.proximal_q) = Len(fn_in.distal_q)) =>
        /\ \A i \in 1..Len(fn_in.proximal_q) :
             RelAt(TurnedLeft(fn_in.R, fn_in.proximal_q),
                   TurnedLeft(fn_in.R, fn_in.distal_q), i)
               = RelAt(fn_in.proximal_q, fn_in.distal_q, i)
        /\ fn_out[1].turned = fn_out[1].plain

\* The last line received, as the reader sees it after strip and split.
LastLine == strip_split(raw[1])

\* A step records a row: the list of rows, the sample count or a plot series
\* gains an entry.
Records ==
    \/ Len(data_rows') > Len(data_rows)
    \/ sample_count' > sample_count
    \/ x_data' # x_data
    \/ pitch_data' # pitch_data
    \/ roll_data' # roll_data
    \/ yaw_data' # yaw_data

\* C17: a line is recorded as a data row (appended to data_rows, counted,
\* plotted) only if the start sentinel '===START===' was received before it:
\* a step records only when reading is already set, and reading is set by
\* nothing but the receipt of the start sentinel, and never cleared.
C17_OnlyAfterStart ==
    [][/\ Records => reading
       /\ reading' # reading => reading' /\ strip_split(raw'[1]) = << START >>]_vars

\* C17: the start sentinel, a header and a row of its arity have been
\* received, and the row is recorded.
C17_Witness ==
    /\ reading
    /\ raw # None
    /\ Len(data_rows) = 1
    /\ LastLine = GoodRow
    /\ x_data = << 0 >>

\* A line is read in this step.
Reads == sent' = sent + 1

\* C18: a received line whose number of tab-separated fields differs from
\* the number of fields of the current header is skipped with no effect:
\* data_rows, sample_count and the four plot series are unchanged by it.
C18_MalformedSkipped ==
    [][Reads /\ Len(raw'[1]) # Len(headers) =>
          UNCHANGED << data_rows, sample_count, x_data, pitch_data, roll_data,
                       yaw_data >>]_vars

\* C19: no data row is recorded while the receiver is calibrating:
\* calibrating is false whenever data_rows grows.
C19_NoRowWhileCalibrating ==
    [][Len(data_rows') > Len(data_rows) => ~calibrating]_vars

\* C20: the plot window is bounded: after any received line none of x_data,
\* pitch_data, roll_data, yaw_data holds more than window_size entries.
C20_WindowBounded ==
    /\ Len(x_data) <= window_size
    /\ Len(pitch_data) <= window_size
    /\ Len(roll_data) <= window_size
    /\ Len(yaw_data) <= window_size

\* C21: the index used to read all_frames_quats is always within
\* [0, len(all_frames_quats)), the frames are read in the order 0, 1, ...,
\* len-1, and after the last frame the playback is back at frame 0; also for
\* a recording of no frames.
C21_IndexInRange ==
    all_frames_quats # None =>
        LET n == Len(all_frames_quats[1])
        IN  /\ play_pc # "IndexError"
            /\ \A k \in 1..Len(played) :
                  /\ played[k] \in 0..(n - 1)
                  /\ played[k] = IF k = 1 \/ played[k - 1] = n - 1
                                 THEN 0 ELSE played[k - 1] + 1

\* Both frames have been built.
FlipApplied == fn_in.fn = "create_anatomical_frame twice" /\ fn_out # None

\* C22: for a primary and a longitudinal axis that are not parallel, the y
\* column of the frame is the normalised part of the longitudinal axis
\* orthogonal to the primary axis, its dot product with the longitudinal
\* axis is strictly positive, and negating the primary axis negates the x
\* and z columns and leaves y as it was.
C22_LongitudinalKept ==
    (FlipApplied /\ ~Parallel(fn_in.primary_axis, fn_in.longitudinal_axis)) =>
        LET p    == fn_in.primary_axis
            l    == fn_in.longitudinal_axis
            r    == fn_out[1].plain
            n    == fn_out[1].negated
            y    == r.axes[2]
            \* (p.p) l - (l.p) p: the part of l orthogonal to p, times p.p
            part == << Dot(p, p) * l[1] - Dot(l, p) * p[1],
                       Dot(p, p) * l[2] - Dot(l, p) * p[2],
                       Dot(p, p) * l[3] - Dot(l, p) * p[3] >>
        IN  /\ r.ok /\ n.ok
            /\ Dot(y, y) = 1
            /\ Parallel(y, part)
            /\ Dot(y, part) > 0
            /\ Dot(y, l) > 0
            /\ n.axes[1] = Neg(r.axes[1])
            /\ n.axes[2] = r.axes[2]
            /\ n.axes[3] = Neg(r.axes[3])

\* C22: both frames were built on a longitudinal axis that leans towards the
\* primary axis, so that y is not the longitudinal axis itself and the two
\* frames differ.
C22_Witness ==
    /\ FlipApplied
    /\ ~Parallel(fn_in.primary_axis, fn_in.longitudinal_axis)
    /\ Dot(fn_in.primary_axis, fn_in.longitudinal_axis) < 0
    /\ fn_out[1].plain.ok
    /\ fn_out[1].negated.ok
    /\ fn_out[1].plain.quat # fn_out[1].negated.quat

====
